---- MODULE Spec2Model ----
(***************************************************************************)
(* Model of sxs-manifest: the serialization of an AssemblyManifest into a  *)
(* sequence of XML writer events.  One serialize call is a linear call     *)
(* tree; every writer.write(..) of the source is one step, so that a       *)
(* failing write and the events already in the sink are visible.           *)
(***************************************************************************)
EXTENDS Integers, Sequences, FiniteSets, TLC

(* ------------------------------------------------------------------ *)
(* Bounds of the model                                                  *)
(* ------------------------------------------------------------------ *)
\* largest supported_os set a caller builds
MaxOS == 1
\* longest dependent_assemblies list a caller builds
MaxDeps == 2
\* longest Path chain a user of the path tracker builds
MaxPathLen == 3

(* ------------------------------------------------------------------ *)
(* Option<T>: None is the empty sequence, Some(x) the one-element one   *)
(* ------------------------------------------------------------------ *)
None == << >>
Some(x) == << x >>
IsSome(o) == Len(o) > 0
Unwrap(o) == o[1]

(* ------------------------------------------------------------------ *)
(* Namespaces and names                                                 *)
(* ------------------------------------------------------------------ *)
NS_MS_ASM_V1 == "urn:schemas-microsoft-com:asm.v1"
NS_MS_COMPAT_V1 == "urn:schemas-microsoft-com:compatibility.v1"
NS_NO_PREFIX == ""

XmlName(local, ns) == [local_name |-> local, namespace |-> Some(ns), prefix |-> None]
XmlAttribute(name, value) == [name |-> name, value |-> value]
\* XmlNamespace::empty() and one put(prefix, uri) on it
XmlNamespaceEmpty == {}
XmlNamespacePut(ns, prefix, uri) == ns \cup {<<prefix, uri>>}

(* ------------------------------------------------------------------ *)
(* Value formatting layer                                               *)
(* ------------------------------------------------------------------ *)
SupportedOS == {"Windows10", "Windows8_1", "Windows8", "Windows7", "WindowsVista"}

SupportedOS_serialize_dup(os) ==
    CASE os = "Windows10" -> "{8e0f7a12-bfb3-4fe8-b9a5-48fd50a15a9a}"
      [] os = "Windows8_1" -> "{1f676c76-80e1-4239-95bb-83d0f6d0da78}"
      [] os = "Windows8" -> "{1f676c76-80e1-4239-95bb-83d0f6d0da78}"
      [] os = "Windows7" -> "{35138b9a-5d96-4fbd-8e2d-a2440225f93a}"
      [] os = "WindowsVista" -> "{e2011457-1546-43c5-a5fe-008deee3d3f0}"

SupportedOS_serialize(os) ==
    CASE os = "Windows10" -> "{8e0f7a12-bfb3-4fe8-b9a5-48fd50a15a9a}"
      [] os = "Windows8_1" -> "{1f676c76-80e1-4239-95bb-83d0f6d0da78}"
      [] os = "Windows8" -> "{4a2f28e3-53b9-4441-ba9c-d69d4a4a6e38}"
      [] os = "Windows7" -> "{35138b9a-5d96-4fbd-8e2d-a2440225f93a}"
      [] os = "WindowsVista" -> "{e2011457-1546-43c5-a5fe-008deee3d3f0}"

ManifestVersion_serialize(v) == CASE v = "V1_0" -> "1.0"

AssemblyType_serialize(t) == CASE t = "Win32" -> "win32"

ProcessArchitecture_serialize(a) ==
    CASE a = "X86" -> "x86"
      [] a = "X86_64" -> "ia64"

AssemblyVersion_new(major, minor, build, revision) ==
    [major |-> major, minor |-> minor, build |-> build, revision |-> revision]

\* a rendering that drops an absent revision instead of defaulting it
AssemblyVersion_serialize_norev(v) ==
    ToString(v.major) \o "." \o ToString(v.minor) \o "." \o ToString(v.build)
        \o (IF IsSome(v.revision) THEN "." \o ToString(Unwrap(v.revision)) ELSE "")

AssemblyVersion_serialize(v) ==
    ToString(v.major) \o "." \o ToString(v.minor) \o "." \o ToString(v.build)
        \o "." \o ToString(IF IsSome(v.revision) THEN Unwrap(v.revision) ELSE 0)

HexDigits == <<"0", "1", "2", "3", "4", "5", "6", "7",
               "8", "9", "A", "B", "C", "D", "E", "F">>
\* {:02X} of one byte
Hex02X(b) == HexDigits[(b \div 16) + 1] \o HexDigits[(b % 16) + 1]

PublicKeyToken_serialize(t) ==
    Hex02X(t[1]) \o Hex02X(t[2]) \o Hex02X(t[3]) \o Hex02X(t[4])
        \o Hex02X(t[5]) \o Hex02X(t[6]) \o Hex02X(t[7]) \o Hex02X(t[8])

(* ------------------------------------------------------------------ *)
(* Path tracker.  A rendered path is the sequence of the pieces the    *)
(* write! calls produce, so every "." written is visible.              *)
(* ------------------------------------------------------------------ *)
PathNode_Named(name) == [kind |-> "Named", text |-> name]
PathNode_Indexed(i) == [kind |-> "Indexed", text |-> ToString(i)]
PathNode_fmt(node) == node.text

Path_new(node) == [parent |-> None, node |-> node]
Path_appended(p, node) == [parent |-> Some(p), node |-> node]

RECURSIVE Path_fmt(_)
Path_fmt(p) ==
    (IF IsSome(p.parent) THEN Path_fmt(Unwrap(p.parent)) \o <<".">> ELSE << >>)
        \o <<".", PathNode_fmt(p.node)>>

(* ------------------------------------------------------------------ *)
(* Results                                                              *)
(* ------------------------------------------------------------------ *)
\* no value returned yet / the Ok(()) of a callee still running on
Pending == [kind |-> "Pending", path |-> << >>, detail |-> ""]
Ok == [kind |-> "Ok", path |-> << >>, detail |-> ""]
XmlWriteError == [kind |-> "XmlWriteError", path |-> << >>, detail |-> ""]
Invalid(path, detail) == [kind |-> "Invalid", path |-> path, detail |-> detail]

(* ------------------------------------------------------------------ *)
(* The model: AssemblyVersion, AssemblyIdentity values a caller uses    *)
(* ------------------------------------------------------------------ *)
\* the version of test_max_version_tested
TestedVersion == AssemblyVersion_new(10, 0, 18358, Some(0))

\* that version with every kind of revision
Versions ==
    { AssemblyVersion_new(10, 0, 18358, r) : r \in {None, Some(0), Some(1)} }

PublicKeyTokens ==
    { <<222, 173, 190, 239, 0, 17, 34, 51>>, <<1, 2, 3, 4, 5, 6, 7, 255>> }

AssemblyIdentity_new(name) ==
    [type |-> "Win32", name |-> name, language |-> None,
     process_architecture |-> None, version |-> None, public_key_token |-> None]

\* every combination of present and absent optional fields
AllIdentities ==
    [type : {"Win32"}, name : {"a"},
     language : {None, Some("en-US")},
     process_architecture : {None, Some("X86"), Some("X86_64")},
     version : {None} \cup {Some(v) : v \in Versions},
     public_key_token : {None} \cup {Some(t) : t \in PublicKeyTokens}]

\* the identities a caller pushes in the whole-manifest specification
Identities ==
    { AssemblyIdentity_new("a"),
      [type |-> "Win32", name |-> "b", language |-> Some("en-US"),
       process_architecture |-> Some("X86_64"),
       version |-> Some(AssemblyVersion_new(10, 0, 18358, None)),
       public_key_token |-> Some(<<222, 173, 190, 239, 0, 17, 34, 51>>)] }

AssemblyManifest_default ==
    [manifest_version |-> "V1_0",
     compatibility |-> [supported_os |-> {}, max_version_tested |-> None],
     dependency |-> [dependent_assemblies |-> << >>]]

(* ------------------------------------------------------------------ *)
(* XML events handed to the writer                                      *)
(* ------------------------------------------------------------------ *)
StartDocument ==
    [type |-> "StartDocument", version |-> "1.0",
     encoding |-> Some("UTF-8"), standalone |-> Some(TRUE)]
StartElement(name, attributes, namespace) ==
    [type |-> "StartElement", name |-> name,
     attributes |-> attributes, namespace |-> namespace]
EndElement == [type |-> "EndElement", name |-> None]

IsStart(ev) == ev.type = "StartElement"
IsEnd(ev) == ev.type = "EndElement"
IsStartOf(ev, local) == IsStart(ev) /\ ev.name.local_name = local

\* the writer's stack of open element names after the events evs
RECURSIVE OpenElements(_)
OpenElements(evs) ==
    IF evs = << >> THEN << >>
    ELSE LET before == OpenElements(SubSeq(evs, 1, Len(evs) - 1))
             ev == evs[Len(evs)]
         IN  IF IsStart(ev) THEN Append(before, ev.name.local_name)
             ELSE IF IsEnd(ev) /\ before # << >>
                  THEN SubSeq(before, 1, Len(before) - 1)
                  ELSE before

\* the writer refuses a second document start and an end with nothing open
EmitterAccepts(evs, ev) ==
    /\ ev.type = "StartDocument" => \A i \in 1..Len(evs) : evs[i].type # "StartDocument"
    /\ IsEnd(ev) => OpenElements(evs) # << >>

(* ------------------------------------------------------------------ *)
(* Element events                                                       *)
(* ------------------------------------------------------------------ *)
AssemblyManifest_StartElement(m) ==
    StartElement(XmlName("assembly", NS_MS_ASM_V1),
                 << XmlAttribute(XmlName("manifestVersion", NS_MS_ASM_V1),
                                 ManifestVersion_serialize(m.manifest_version)) >>,
                 XmlNamespacePut(XmlNamespaceEmpty, NS_NO_PREFIX, NS_MS_ASM_V1))

Compatibility_StartElement ==
    StartElement(XmlName("compatibility", NS_MS_COMPAT_V1), << >>,
                 XmlNamespacePut(XmlNamespaceEmpty, NS_NO_PREFIX, NS_MS_COMPAT_V1))

Application_StartElement ==
    StartElement(XmlName("application", NS_MS_COMPAT_V1), << >>, XmlNamespaceEmpty)

MaxVersionTested_StartElement(maxversion) ==
    StartElement(XmlName("maxversiontested", NS_MS_COMPAT_V1),
                 << XmlAttribute(XmlName("Id", NS_MS_COMPAT_V1),
                                 AssemblyVersion_serialize(maxversion)) >>,
                 XmlNamespaceEmpty)

SupportedOS_StartElement(os) ==
    StartElement(XmlName("supportedOS", NS_MS_ASM_V1),
                 << XmlAttribute(XmlName("Id", NS_MS_ASM_V1),
                                 SupportedOS_serialize(os)) >>,
                 XmlNamespaceEmpty)

Dependency_StartElement ==
    StartElement(XmlName("dependency", NS_MS_ASM_V1), << >>, XmlNamespaceEmpty)

DependentAssembly_StartElement ==
    StartElement(XmlName("dependentAssembly", NS_MS_ASM_V1), << >>, XmlNamespaceEmpty)

\* attributes.push(XmlAttribute { name, value }) as a one-element list
Attr(local, value) == << XmlAttribute(XmlName(local, NS_MS_ASM_V1), value) >>

\* the attributes with version pushed before processorArchitecture
AssemblyIdentity_attributes_swapped(a) ==
    Attr("type", AssemblyType_serialize(a.type))
    \o Attr("name", a.name)
    \o (IF IsSome(a.language)
        THEN Attr("language", Unwrap(a.language)) ELSE << >>)
    \o (IF IsSome(a.version)
        THEN Attr("version",
                    AssemblyVersion_serialize(Unwrap(a.version))) ELSE << >>)
    \o (IF IsSome(a.process_architecture)
        THEN Attr("processorArchitecture",
                    ProcessArchitecture_serialize(Unwrap(a.process_architecture)))
        ELSE << >>)
    \o (IF IsSome(a.public_key_token)
        THEN Attr("publicKeyToken",
                    PublicKeyToken_serialize(Unwrap(a.public_key_token))) ELSE << >>)

AssemblyIdentity_attributes(a) ==
    Attr("type", AssemblyType_serialize(a.type))
    \o Attr("name", a.name)
    \o (IF IsSome(a.language)
        THEN Attr("language", Unwrap(a.language)) ELSE << >>)
    \o (IF IsSome(a.process_architecture)
        THEN Attr("processorArchitecture",
                    ProcessArchitecture_serialize(Unwrap(a.process_architecture)))
        ELSE << >>)
    \o (IF IsSome(a.version)
        THEN Attr("version",
                    AssemblyVersion_serialize(Unwrap(a.version))) ELSE << >>)
    \o (IF IsSome(a.public_key_token)
        THEN Attr("publicKeyToken",
                    PublicKeyToken_serialize(Unwrap(a.public_key_token))) ELSE << >>)

AssemblyIdentity_StartElement(a) ==
    StartElement(XmlName("assemblyIdentity", NS_MS_ASM_V1),
                 AssemblyIdentity_attributes(a), XmlNamespaceEmpty)

(* ------------------------------------------------------------------ *)
(* State                                                                *)
(* ------------------------------------------------------------------ *)
VARIABLES
    manifest,       \* the caller's AssemblyManifest
    entry,          \* the entry point of the call in progress
    pc,             \* the position of the call in progress, "idle" between calls
    events,         \* the events the writer of this call has written to its sink
    result,         \* the SerializeResult travelling up the call tree
    text,           \* what serialize_to_string_with_config returned as Ok(String)
    osLeft,         \* the members the supported_os iterator has not yielded yet
    idx,            \* the index of the dependent_assemblies loop
    invalidBefore,  \* an earlier call on this manifest returned Invalid
    chain           \* the Path chain a user of the path tracker has built

vars == <<manifest, entry, pc, events, result, text, osLeft, idx, invalidBefore, chain>>

compat == manifest.compatibility
deps == manifest.dependency.dependent_assemblies

\* a generic sink W may fail on any write; the Vec<u8> of the string path never does
SinkMayFail == entry = "serialize_with_config"

Init ==
    /\ manifest = AssemblyManifest_default
    /\ entry = "none"
    /\ pc = "idle"
    /\ events = << >>
    /\ result = Pending
    /\ text = None
    /\ osLeft = {}
    /\ idx = 0
    /\ invalidBefore = FALSE
    /\ chain = None

(* ------------------------------------------------------------------ *)
(* The caller builds the manifest through its public fields             *)
(* ------------------------------------------------------------------ *)
InsertSupportedOS ==
    /\ pc = "idle"
    /\ Cardinality(compat.supported_os) < MaxOS
    /\ \E os \in SupportedOS \ compat.supported_os :
          manifest' = [manifest EXCEPT !.compatibility.supported_os = @ \cup {os}]
    /\ UNCHANGED <<entry, pc, events, result, text, osLeft, idx, invalidBefore, chain>>

SetMaxVersionTested ==
    /\ pc = "idle"
    /\ \E v \in {None, Some(TestedVersion)} :
          /\ v # compat.max_version_tested
          /\ manifest' = [manifest EXCEPT !.compatibility.max_version_tested = v]
    /\ UNCHANGED <<entry, pc, events, result, text, osLeft, idx, invalidBefore, chain>>

PushDependentAssembly ==
    /\ pc = "idle"
    /\ Len(deps) < MaxDeps
    /\ \E a \in Identities :
          manifest' = [manifest EXCEPT !.dependency.dependent_assemblies = Append(@, a)]
    /\ UNCHANGED <<entry, pc, events, result, text, osLeft, idx, invalidBefore, chain>>

(* ------------------------------------------------------------------ *)
(* writer.write(event)?                                                 *)
(* ------------------------------------------------------------------ *)
\* the event is written and the callee goes on at next, or the write fails and
\* the ? returns the error to the place onfail
Write(ev, next, onfail) ==
    \/ /\ EmitterAccepts(events, ev)
       /\ events' = Append(events, ev)
       /\ pc' = next
       /\ result' = result
    \/ /\ SinkMayFail \/ ~EmitterAccepts(events, ev)
       /\ events' = events
       /\ pc' = onfail
       /\ result' = XmlWriteError

(* ------------------------------------------------------------------ *)
(* Entry points                                                         *)
(* ------------------------------------------------------------------ *)
BeginCall(e) ==
    /\ pc = "idle"
    /\ entry' = e
    /\ pc' = "start_document"
    /\ events' = << >>
    /\ result' = Pending
    /\ text' = None
    /\ osLeft' = {}
    /\ idx' = 0
    /\ UNCHANGED <<manifest, invalidBefore, chain>>

\* serialize_with_config on a writer of the caller
CallSerializeWithConfig == BeginCall("serialize_with_config")

\* serialize_to_string_with_config: a fresh Vec<u8> handed to serialize_with_config
CallSerializeToString == BeginCall("serialize_to_string_with_config")

(* ------------------------------------------------------------------ *)
(* AssemblyManifest::serialize_with_config                              *)
(* ------------------------------------------------------------------ *)
WriteStartDocument ==
    /\ pc = "start_document"
    /\ Write(StartDocument, "root_start", "returned")
    /\ UNCHANGED <<manifest, entry, text, osLeft, idx, invalidBefore, chain>>

WriteRootStart ==
    /\ pc = "root_start"
    /\ Write(AssemblyManifest_StartElement(manifest), "compat_enter", "returned")
    /\ UNCHANGED <<manifest, entry, text, osLeft, idx, invalidBefore, chain>>

\* self.compatibility.serialize(..)? : an error returns, Ok(()) goes on
CompatibilityReturn_noabort ==
    /\ pc = "compat_ret"
    /\ pc' = "dep_loop"
    /\ idx' = 0
    /\ UNCHANGED <<manifest, entry, events, result, text, osLeft, invalidBefore, chain>>

CompatibilityReturn ==
    /\ pc = "compat_ret"
    /\ pc' = IF result = Pending THEN "dep_loop" ELSE "returned"
    /\ idx' = 0
    /\ UNCHANGED <<manifest, entry, events, result, text, osLeft, invalidBefore, chain>>

\* the return that hands the sink back without closing the root element
DependencyReturn_noclose ==
    /\ pc = "dep_ret"
    /\ pc' = IF result = Pending THEN "into_inner" ELSE "returned"
    /\ UNCHANGED <<manifest, entry, events, result, text, osLeft, idx, invalidBefore, chain>>

\* self.dependency.serialize(..)?
DependencyReturn ==
    /\ pc = "dep_ret"
    /\ pc' = IF result = Pending THEN "root_end" ELSE "returned"
    /\ UNCHANGED <<manifest, entry, events, result, text, osLeft, idx, invalidBefore, chain>>

WriteRootEnd ==
    /\ pc = "root_end"
    /\ Write(EndElement, "into_inner", "returned")
    /\ UNCHANGED <<manifest, entry, text, osLeft, idx, invalidBefore, chain>>

\* Ok(writer.into_inner())
IntoInner ==
    /\ pc = "into_inner"
    /\ result' = Ok
    /\ pc' = "returned"
    /\ UNCHANGED <<manifest, entry, events, text, osLeft, idx, invalidBefore, chain>>

(* ------------------------------------------------------------------ *)
(* Compatibility::serialize                                             *)
(* ------------------------------------------------------------------ *)
\* format!("{}.{}", &path, "maxversion_tested")
Compatibility_invalid_path(path) == Path_fmt(path) \o <<".", "maxversion_tested">>

\* the value returned at once for an empty supported_os
Compatibility_empty_result_lenient(c, path) == Pending

Compatibility_empty_result(c, path) ==
    IF IsSome(c.max_version_tested)
    THEN Invalid(Compatibility_invalid_path(path),
                 "maxversion_tested requires at least one supported_os")
    ELSE Pending

\* the validation without the early return for an empty supported_os
CompatibilityEnter_noearly ==
    /\ pc = "compat_enter"
    /\ result' = result
    /\ pc' = "compat_start"
    /\ UNCHANGED <<manifest, entry, events, text, osLeft, idx, invalidBefore, chain>>

\* the validation answering from the failure of an earlier call
CompatibilityEnter_sticky ==
    /\ pc = "compat_enter"
    /\ IF compat.supported_os = {} \/ invalidBefore
       THEN /\ result' = IF IsSome(compat.max_version_tested)
                         THEN Invalid(<<".", "compatibility", ".", "maxversion_tested">>,
                                      "maxversion_tested requires at least one supported_os")
                         ELSE Pending
            /\ pc' = "compat_ret"
       ELSE /\ result' = result
            /\ pc' = "compat_start"
    /\ UNCHANGED <<manifest, entry, events, text, osLeft, idx, invalidBefore, chain>>

\* the supported_os.is_empty() early return
CompatibilityEnter ==
    /\ pc = "compat_enter"
    /\ IF compat.supported_os = {}
       THEN /\ result' = Compatibility_empty_result(
                             compat, Path_new(PathNode_Named("compatibility")))
            /\ pc' = "compat_ret"
       ELSE /\ result' = result
            /\ pc' = "compat_start"
    /\ UNCHANGED <<manifest, entry, events, text, osLeft, idx, invalidBefore, chain>>

WriteCompatibilityStart ==
    /\ pc = "compat_start"
    /\ Write(Compatibility_StartElement, "app_start", "compat_ret")
    /\ UNCHANGED <<manifest, entry, text, osLeft, idx, invalidBefore, chain>>

\* where the body goes after the application start element
AfterApplicationStart(c) ==
    IF IsSome(c.max_version_tested) THEN "maxver_start" ELSE "os_start"

WriteApplicationStart ==
    /\ pc = "app_start"
    /\ Write(Application_StartElement, AfterApplicationStart(compat), "compat_ret")
    /\ osLeft' = IF pc' = "os_start" THEN compat.supported_os ELSE osLeft
    /\ UNCHANGED <<manifest, entry, text, idx, invalidBefore, chain>>

WriteMaxVersionTestedStart ==
    /\ pc = "maxver_start"
    /\ Write(MaxVersionTested_StartElement(Unwrap(compat.max_version_tested)),
             "maxver_end", "compat_ret")
    /\ UNCHANGED <<manifest, entry, text, osLeft, idx, invalidBefore, chain>>

WriteMaxVersionTestedEnd ==
    /\ pc = "maxver_end"
    /\ Write(EndElement, "os_start", "compat_ret")
    /\ osLeft' = IF pc' = "os_start" THEN compat.supported_os ELSE osLeft
    /\ UNCHANGED <<manifest, entry, text, idx, invalidBefore, chain>>

\* one round of for os in &self.supported_os: the set yields its members in any order
WriteSupportedOSStart ==
    /\ pc = "os_start"
    /\ \E os \in osLeft :
          /\ Write(SupportedOS_StartElement(os), "os_end", "compat_ret")
          /\ osLeft' = IF pc' = "os_end" THEN osLeft \ {os} ELSE osLeft
    /\ UNCHANGED <<manifest, entry, text, idx, invalidBefore, chain>>

\* the loop body that leaves the supportedOS element open
WriteSupportedOSEnd_skip ==
    /\ pc = "os_end"
    /\ pc' = IF osLeft = {} THEN "app_end" ELSE "os_start"
    /\ UNCHANGED <<manifest, entry, events, result, text, osLeft, idx,
                   invalidBefore, chain>>

WriteSupportedOSEnd ==
    /\ pc = "os_end"
    /\ Write(EndElement, IF osLeft = {} THEN "app_end" ELSE "os_start", "compat_ret")
    /\ UNCHANGED <<manifest, entry, text, osLeft, idx, invalidBefore, chain>>

WriteApplicationEnd ==
    /\ pc = "app_end"
    /\ Write(EndElement, "compat_end", "compat_ret")
    /\ UNCHANGED <<manifest, entry, text, osLeft, idx, invalidBefore, chain>>

WriteCompatibilityEnd ==
    /\ pc = "compat_end"
    /\ Write(EndElement, "compat_ret", "compat_ret")
    /\ UNCHANGED <<manifest, entry, text, osLeft, idx, invalidBefore, chain>>

(* ------------------------------------------------------------------ *)
(* Dependency::serialize and AssemblyIdentity::serialize                *)
(* ------------------------------------------------------------------ *)
\* the loop head over dependent_assemblies, then Ok(())
DependencyLoop ==
    /\ pc = "dep_loop"
    /\ pc' = IF idx < Len(deps) THEN "dep_start" ELSE "dep_ret"
    /\ UNCHANGED <<manifest, entry, events, result, text, osLeft, idx, invalidBefore, chain>>

WriteDependencyStart ==
    /\ pc = "dep_start"
    /\ Write(Dependency_StartElement, "depasm_start", "dep_ret")
    /\ UNCHANGED <<manifest, entry, text, osLeft, idx, invalidBefore, chain>>

WriteDependentAssemblyStart ==
    /\ pc = "depasm_start"
    /\ Write(DependentAssembly_StartElement, "ident_start", "dep_ret")
    /\ UNCHANGED <<manifest, entry, text, osLeft, idx, invalidBefore, chain>>

\* the assembly the loop hands to assembly.serialize
CurrentAssembly_first == deps[1]

CurrentAssembly == deps[idx + 1]

WriteAssemblyIdentityStart ==
    /\ pc = "ident_start"
    /\ Write(AssemblyIdentity_StartElement(CurrentAssembly), "ident_end", "ident_ret")
    /\ UNCHANGED <<manifest, entry, text, osLeft, idx, invalidBefore, chain>>

WriteAssemblyIdentityEnd ==
    /\ pc = "ident_end"
    /\ Write(EndElement, "ident_ret", "ident_ret")
    /\ UNCHANGED <<manifest, entry, text, osLeft, idx, invalidBefore, chain>>

\* assembly.serialize(..)?
AssemblyIdentityReturn ==
    /\ pc = "ident_ret"
    /\ pc' = IF result = Pending THEN "depasm_end" ELSE "dep_ret"
    /\ UNCHANGED <<manifest, entry, events, result, text, osLeft, idx, invalidBefore, chain>>

WriteDependentAssemblyEnd ==
    /\ pc = "depasm_end"
    /\ Write(EndElement, "dep_end", "dep_ret")
    /\ UNCHANGED <<manifest, entry, text, osLeft, idx, invalidBefore, chain>>

WriteDependencyEnd ==
    /\ pc = "dep_end"
    /\ Write(EndElement, "dep_loop", "dep_ret")
    /\ idx' = IF pc' = "dep_loop" THEN idx + 1 ELSE idx
    /\ UNCHANGED <<manifest, entry, text, osLeft, invalidBefore, chain>>

(* ------------------------------------------------------------------ *)
(* serialize_to_string_with_config and the return to the caller         *)
(* ------------------------------------------------------------------ *)
\* the text handed out for a result of serialize_with_config
StringResult_partial(r, buf) == Some(buf)

StringResult(r, buf) == IF r = Ok THEN Some(buf) ELSE None

\* let buf = self.serialize_with_config(config, buf)?; Ok(String::from_utf8(buf).unwrap())
StringFromUtf8 ==
    /\ pc = "returned"
    /\ entry = "serialize_to_string_with_config"
    /\ text' = StringResult(result, events)
    /\ pc' = "done"
    /\ UNCHANGED <<manifest, entry, events, result, osLeft, idx, invalidBefore, chain>>

\* the call has returned to the caller
Finished ==
    \/ pc = "done"
    \/ pc = "returned" /\ entry = "serialize_with_config"

\* the caller takes the result; the writer and its sink are gone
Return ==
    /\ Finished
    /\ pc' = "idle"
    /\ entry' = "none"
    /\ events' = << >>
    /\ result' = Pending
    /\ text' = None
    /\ osLeft' = {}
    /\ idx' = 0
    /\ invalidBefore' = (invalidBefore \/ result.kind = "Invalid")
    /\ UNCHANGED <<manifest, chain>>

(* ------------------------------------------------------------------ *)
(* Specifications                                                       *)
(* ------------------------------------------------------------------ *)
Serialize ==
    \/ CallSerializeWithConfig
    \/ CallSerializeToString
    \/ WriteStartDocument
    \/ WriteRootStart
    \/ CompatibilityEnter
    \/ WriteCompatibilityStart
    \/ WriteApplicationStart
    \/ WriteMaxVersionTestedStart
    \/ WriteMaxVersionTestedEnd
    \/ WriteSupportedOSStart
    \/ WriteSupportedOSEnd
    \/ WriteApplicationEnd
    \/ WriteCompatibilityEnd
    \/ CompatibilityReturn
    \/ DependencyLoop
    \/ WriteDependencyStart
    \/ WriteDependentAssemblyStart
    \/ WriteAssemblyIdentityStart
    \/ WriteAssemblyIdentityEnd
    \/ AssemblyIdentityReturn
    \/ WriteDependentAssemblyEnd
    \/ WriteDependencyEnd
    \/ DependencyReturn
    \/ WriteRootEnd
    \/ IntoInner
    \/ StringFromUtf8
    \/ Return

Next ==
    \/ InsertSupportedOS
    \/ SetMaxVersionTested
    \/ PushDependentAssembly
    \/ Serialize

\* a caller builds a manifest from the default one and serializes it again and again
Spec == Init /\ [][Next]_vars

ManifestOf(s, m, d) ==
    [manifest_version |-> "V1_0",
     compatibility |-> [supported_os |-> s, max_version_tested |-> m],
     dependency |-> [dependent_assemblies |-> d]]

\* every compatibility value without dependencies, and every shape of one
\* dependent assembly, each serialized again and again as it stands
InitValues ==
    /\ manifest \in
          { ManifestOf(s, m, << >>) :
               s \in SUBSET SupportedOS,
               m \in {None} \cup {Some(v) : v \in Versions} }
          \cup
          { ManifestOf(s, m, << a >>) :
               s \in {{}, {"Windows10"}},
               m \in {None, Some(TestedVersion)},
               a \in AllIdentities }
    /\ entry = "none"
    /\ pc = "idle"
    /\ events = << >>
    /\ result = Pending
    /\ text = None
    /\ osLeft = {}
    /\ idx = 0
    /\ invalidBefore = FALSE
    /\ chain = None

SpecValues == InitValues /\ [][Serialize]_vars

(* ------------------------------------------------------------------ *)
(* The path tracker on its own                                          *)
(* ------------------------------------------------------------------ *)
\* the nodes the serializers make: the two field names and list indices
PathNodes ==
    { PathNode_Named("compatibility"), PathNode_Named("dependency"),
      PathNode_Named("maxversion_tested"), PathNode_Indexed(0), PathNode_Indexed(1) }

RECURSIVE PathLen(_)
PathLen(p) == IF IsSome(p.parent) THEN PathLen(Unwrap(p.parent)) + 1 ELSE 1

\* Path::new(node)
PathNew ==
    /\ chain = None
    /\ \E node \in PathNodes : chain' = Some(Path_new(node))
    /\ UNCHANGED <<manifest, entry, pc, events, result, text, osLeft, idx, invalidBefore>>

\* path.appended(node), the new Path borrowing the old one as its parent
PathAppended ==
    /\ IsSome(chain)
    /\ PathLen(Unwrap(chain)) < MaxPathLen
    /\ \E node \in PathNodes : chain' = Some(Path_appended(Unwrap(chain), node))
    /\ UNCHANGED <<manifest, entry, pc, events, result, text, osLeft, idx, invalidBefore>>

PathNext == PathNew \/ PathAppended

\* Path::new followed by any number of appended calls
SpecPath == Init /\ [][PathNext]_vars

(* ------------------------------------------------------------------ *)
(* Reading the sink                                                     *)
(* ------------------------------------------------------------------ *)
CompatNames == {"compatibility", "application", "maxversiontested", "supportedOS"}
DepNames == {"dependency", "dependentAssembly", "assemblyIdentity"}

\* for every event the element it opens or closes, and the elements left open
RECURSIVE Tagging(_)
Tagging(evs) ==
    IF evs = << >> THEN [tags |-> << >>, open |-> << >>]
    ELSE LET b == Tagging(SubSeq(evs, 1, Len(evs) - 1))
             ev == evs[Len(evs)]
         IN  IF ev.type = "StartDocument"
             THEN [tags |-> Append(b.tags, "#document"), open |-> b.open]
             ELSE IF IsStart(ev)
             THEN [tags |-> Append(b.tags, ev.name.local_name),
                   open |-> Append(b.open, ev.name.local_name)]
             ELSE IF b.open = << >>
             THEN [tags |-> Append(b.tags, "#none"), open |-> b.open]
             ELSE [tags |-> Append(b.tags, b.open[Len(b.open)]),
                   open |-> SubSeq(b.open, 1, Len(b.open) - 1)]

ElementOf(evs) == Tagging(evs).tags

\* the events of evs that open or close an element named in names, in order
EventsOf(evs, names) ==
    LET tag == ElementOf(evs)
        RECURSIVE F(_)
        F(i) == IF i = 0 THEN << >>
                ELSE IF tag[i] \in names THEN Append(F(i - 1), evs[i]) ELSE F(i - 1)
    IN  F(Len(evs))

StartsOf(evs, local) == { i \in 1..Len(evs) : IsStartOf(evs[i], local) }

IsPrefix(s, t) == Len(s) <= Len(t) /\ s = SubSeq(t, 1, Len(s))

\* the segments of a rendered path, without the dots
Segments(path) == SelectSeq(path, LAMBDA piece : piece # ".")

IsError(r) == r.kind \in {"Invalid", "XmlWriteError"}
WriterFailed == result.kind = "XmlWriteError"
ToStringEntry == entry = "serialize_to_string_with_config"

(* ------------------------------------------------------------------ *)
(* Claims                                                               *)
(* ------------------------------------------------------------------ *)
EmptyOSWithMaxVersion ==
    compat.supported_os = {} /\ IsSome(compat.max_version_tested)

\* C1: a manifest with an empty supported_os and a present max_version_tested
\* fails with Invalid from both entry points (a sink that already failed on the
\* declaration or the root start has returned its writer error before the check
\* is reached), the reported path names compatibility and then maxversion_tested,
\* and no compatibility, application, maxversiontested or supportedOS element
\* is ever written.
C1_EmptyOSWithMaxVersionIsInvalid ==
    EmptyOSWithMaxVersion =>
        /\ EventsOf(events, CompatNames) = << >>
        /\ result # Ok
        /\ text = None
        /\ Finished /\ ~WriterFailed =>
              /\ result.kind = "Invalid"
              /\ Segments(result.path) = <<"compatibility", "maxversion_tested">>
        /\ Finished /\ ToStringEntry => result.kind = "Invalid"

C1_Witness ==
    /\ EmptyOSWithMaxVersion
    /\ pc = "done"
    /\ ToStringEntry
    /\ result.kind = "Invalid"

EmptyOSNoMaxVersion ==
    compat.supported_os = {} /\ ~IsSome(compat.max_version_tested)

\* C2: a manifest with an empty supported_os and no max_version_tested
\* serializes successfully (no Invalid; Ok whenever the sink took every write)
\* and no compatibility element is written; the default manifest yields exactly
\* the declaration, the start of the root assembly with manifestVersion="1.0",
\* and the end of the root.
C2_EmptyCompatibilityWritesNothing ==
    EmptyOSNoMaxVersion =>
        /\ EventsOf(events, CompatNames) = << >>
        /\ result.kind # "Invalid"
        /\ Finished /\ ~WriterFailed => result = Ok
        /\ Finished /\ result = Ok /\ manifest = AssemblyManifest_default =>
              /\ Len(events) = 3
              /\ events[1].type = "StartDocument"
              /\ IsStartOf(events[2], "assembly")
              /\ Len(events[2].attributes) = 1
              /\ events[2].attributes[1].name.local_name = "manifestVersion"
              /\ events[2].attributes[1].value = "1.0"
              /\ IsEnd(events[3])
              /\ ToStringEntry /\ pc = "done" => text = Some(events)

C2_Witness ==
    /\ manifest = AssemblyManifest_default
    /\ pc = "done"
    /\ ToStringEntry
    /\ result = Ok
    /\ Len(events) = 3

\* C3: for a non-empty supported_os a successful serialization holds exactly
\* one supportedOS element per member of the set, its only attribute the Id
\* with the member's token; no token is written twice, every written token is
\* the token of a member, and the five tokens are pairwise distinct.
C3_OneSupportedOSPerMember ==
    LET os_events == StartsOf(events, "supportedOS")
        id(i) == events[i].attributes[1].value
    IN  /\ \A a, b \in SupportedOS :
              a # b => SupportedOS_serialize(a) # SupportedOS_serialize(b)
        /\ \A i \in os_events :
              /\ Len(events[i].attributes) = 1
              /\ events[i].attributes[1].name.local_name = "Id"
              /\ \E os \in compat.supported_os : id(i) = SupportedOS_serialize(os)
        /\ \A i, j \in os_events : id(i) = id(j) => i = j
        /\ result = Ok =>
              /\ Cardinality(os_events) = Cardinality(compat.supported_os)
              /\ \A os \in compat.supported_os :
                    Cardinality({ i \in os_events :
                                    id(i) = SupportedOS_serialize(os) }) = 1

C3_Witness ==
    /\ Finished
    /\ result = Ok
    /\ compat.supported_os = SupportedOS
    /\ Cardinality(StartsOf(events, "supportedOS")) = 5

\* the dependency events Dependency::serialize owes for the list d
RECURSIVE ExpectedDependencyEvents(_)
ExpectedDependencyEvents(d) ==
    IF d = << >> THEN << >>
    ELSE ExpectedDependencyEvents(SubSeq(d, 1, Len(d) - 1))
         \o << Dependency_StartElement, DependentAssembly_StartElement,
               AssemblyIdentity_StartElement(d[Len(d)]),
               EndElement, EndElement, EndElement >>

\* C4: for a list of N dependent assemblies a successful serialization holds
\* exactly N dependency elements, the i-th wrapping one dependentAssembly that
\* wraps the assemblyIdentity of the i-th entry, in input order; what is
\* written at any moment is a prefix of that, and nothing for N = 0.
C4_OneDependencyPerEntryInOrder ==
    LET written == EventsOf(events, DepNames)
        owed == ExpectedDependencyEvents(deps)
    IN  /\ IsPrefix(written, owed)
        /\ Cardinality(StartsOf(events, "dependency")) <= Len(deps)
        /\ result = Ok =>
              /\ written = owed
              /\ Cardinality(StartsOf(events, "dependency")) = Len(deps)
              /\ Cardinality(StartsOf(events, "dependentAssembly")) = Len(deps)
              /\ Cardinality(StartsOf(events, "assemblyIdentity")) = Len(deps)
              /\ \A k \in 1..Len(deps) :
                    /\ IsStartOf(written[6 * k - 5], "dependency")
                    /\ IsStartOf(written[6 * k - 4], "dependentAssembly")
                    /\ IsStartOf(written[6 * k - 3], "assemblyIdentity")
                    /\ written[6 * k - 3].attributes[2].value = deps[k].name
                    /\ IsEnd(written[6 * k - 2])
                    /\ IsEnd(written[6 * k - 1])
                    /\ IsEnd(written[6 * k])

C4_Witness ==
    /\ Finished
    /\ result = Ok
    /\ Len(deps) = 2
    /\ deps[1] # deps[2]
    /\ Len(EventsOf(events, DepNames)) = 12

\* C5: the declaration (version 1.0, UTF-8, standalone) is the first event and
\* the start of the root assembly the second; every later event belongs to the
\* compatibility block or to a dependency block, except the end of the root,
\* which is the last event; no compatibility event follows a dependency event;
\* the sink is returned (Ok) only with the root element closed.
C5_EventOrder ==
    LET n == Len(events)
        tagging == Tagging(events)
        tag == tagging.tags
    IN  /\ n >= 1 =>
              /\ events[1].type = "StartDocument"
              /\ events[1].version = "1.0"
              /\ events[1].encoding = Some("UTF-8")
              /\ events[1].standalone = Some(TRUE)
        /\ n >= 2 => IsStartOf(events[2], "assembly")
        /\ \A i \in 3..n :
              /\ tag[i] \in CompatNames \cup DepNames \cup {"assembly"}
              /\ tag[i] = "assembly" => i = n /\ IsEnd(events[i])
        /\ \A i, j \in 3..n :
              tag[i] \in DepNames /\ tag[j] \in CompatNames => j < i
        /\ result = Ok =>
              /\ n >= 3
              /\ IsEnd(events[n])
              /\ tag[n] = "assembly"
              /\ tagging.open = << >>

C5_Witness ==
    /\ Finished
    /\ result = Ok
    /\ EventsOf(events, CompatNames) # << >>
    /\ EventsOf(events, DepNames) # << >>

\* the positions inside Dependency::serialize and after it
AfterCompatibility ==
    {"dep_loop", "dep_start", "depasm_start", "ident_start", "ident_end",
     "ident_ret", "depasm_end", "dep_end", "root_end", "into_inner"}

\* C6: the first failure aborts the call: from the step that fails until the
\* caller has the result, no event is written and the error stays the same;
\* an error raised in the compatibility serializer never reaches the
\* dependency serializer or the close of the root; the events written before
\* the failure stay in the sink, for Invalid exactly the declaration and the
\* root start with the root left open.
C6_FirstFailureAborts ==
    /\ [](result.kind = "Invalid" =>
            /\ Len(events) = 2
            /\ events[1].type = "StartDocument"
            /\ IsStartOf(events[2], "assembly")
            /\ OpenElements(events) = <<"assembly">>)
    /\ [](IsError(result) => pc \notin AfterCompatibility \/ pc = "ident_ret")
    /\ [][IsError(result) /\ ~Finished =>
            /\ events' = events
            /\ result' = result
            /\ pc' \in {"compat_ret", "ident_ret", "dep_ret", "returned", "done"}]_vars

C6_Witness ==
    /\ Finished
    /\ WriterFailed
    /\ deps # << >>
    /\ EventsOf(events, CompatNames) # << >>
    /\ EventsOf(events, DepNames) = << >>
    /\ OpenElements(events) # << >>

\* C7: serialize_to_string_with_config hands out a text exactly when the whole
\* serialize_with_config call succeeded, and then it is the whole document with
\* the root closed; on a failure it returns the error and none of the events
\* already in the buffer.
C7_TextOnlyAfterSuccess ==
    /\ IsSome(text) <=> (pc = "done" /\ result = Ok)
    /\ IsSome(text) =>
          /\ Unwrap(text) = events
          /\ Len(events) >= 3
          /\ OpenElements(events) = << >>
    /\ pc = "done" => ToStringEntry /\ result.kind \in {"Ok", "Invalid", "XmlWriteError"}

C7_Witness ==
    /\ pc = "done"
    /\ result.kind = "Invalid"
    /\ text = None
    /\ Len(events) = 2

\* the members of supported_os in the order their elements stand in evs
OSOrder(evs) ==
    LET w == SelectSeq(evs, LAMBDA ev : IsStartOf(ev, "supportedOS"))
    IN  [i \in 1..Len(w) |->
            CHOOSE os \in SupportedOS :
                SupportedOS_serialize(os) = w[i].attributes[1].value]

RECURSIVE ExpectedSupportedOSEvents(_)
ExpectedSupportedOSEvents(order) ==
    IF order = << >> THEN << >>
    ELSE ExpectedSupportedOSEvents(SubSeq(order, 1, Len(order) - 1))
         \o << SupportedOS_StartElement(order[Len(order)]), EndElement >>

\* the document of the manifest m whose set yields its members in this order
ExpectedDocument(m, order) ==
    LET c == m.compatibility
    IN  << StartDocument, AssemblyManifest_StartElement(m) >>
        \o (IF c.supported_os = {} THEN << >>
            ELSE << Compatibility_StartElement, Application_StartElement >>
                 \o (IF IsSome(c.max_version_tested)
                     THEN << MaxVersionTested_StartElement(Unwrap(c.max_version_tested)),
                             EndElement >>
                     ELSE << >>)
                 \o ExpectedSupportedOSEvents(order)
                 \o << EndElement, EndElement >>)
        \o ExpectedDependencyEvents(m.dependency.dependent_assemblies)
        \o << EndElement >>

\* C8: a serialize call never changes the manifest, and what a call returns is
\* decided by the manifest's value at that call alone, whatever earlier calls
\* returned: Invalid exactly for an empty supported_os with a max_version_tested,
\* and otherwise the document of that value; so the manifest that failed with
\* Invalid succeeds once Windows10 is inserted, with the document of a manifest
\* built that way from scratch.
C8_NoStateBetweenCalls ==
    /\ [](Finished /\ ~WriterFailed =>
            /\ result.kind = "Invalid" <=> EmptyOSWithMaxVersion
            /\ result.kind # "Invalid" =>
                  /\ result = Ok
                  /\ { OSOrder(events)[i] : i \in 1..Len(OSOrder(events)) }
                        = compat.supported_os
                  /\ events = ExpectedDocument(manifest, OSOrder(events)))
    /\ [][pc # "idle" => manifest' = manifest]_vars

C8_Witness ==
    /\ pc = "done"
    /\ result = Ok
    /\ invalidBefore
    /\ compat.supported_os = {"Windows10"}
    /\ compat.max_version_tested = Some(TestedVersion)
    /\ \E i \in StartsOf(events, "maxversiontested") :
          events[i].attributes[1].value = "10.0.18358.0"

AttributeNames(ev) == [j \in 1..Len(ev.attributes) |-> ev.attributes[j].name.local_name]

\* type and name, then each optional attribute whose field is present
ExpectedAttributeNames(a) ==
    <<"type", "name">>
    \o (IF IsSome(a.language) THEN <<"language">> ELSE << >>)
    \o (IF IsSome(a.process_architecture) THEN <<"processorArchitecture">> ELSE << >>)
    \o (IF IsSome(a.version) THEN <<"version">> ELSE << >>)
    \o (IF IsSome(a.public_key_token) THEN <<"publicKeyToken">> ELSE << >>)

\* C9: every assemblyIdentity start element is the child of a dependentAssembly
\* and is followed at once by its end (the end is the next write while it is
\* still missing, unless that write failed); its attributes are type and name,
\* then language, processorArchitecture, version, publicKeyToken, each present
\* exactly when the field of that list entry is present; AssemblyIdentity's
\* serializer never returns Invalid.
C9_AssemblyIdentityElement ==
    LET ids == StartsOf(events, "assemblyIdentity")
        n == Len(events)
    IN  /\ \A i \in ids :
              LET k == Cardinality({ j \in ids : j <= i })
              IN  /\ k <= Len(deps)
                  /\ AttributeNames(events[i]) = ExpectedAttributeNames(deps[k])
                  /\ events[i].attributes[1].value = "win32"
                  /\ events[i].attributes[2].value = deps[k].name
                  /\ IsStartOf(events[i - 1], "dependentAssembly")
                  /\ i < n => IsEnd(events[i + 1])
                  /\ i = n => pc = "ident_end" \/ WriterFailed
        /\ pc = "ident_ret" =>
              /\ result.kind # "Invalid"
              /\ result = Pending =>
                    /\ IsEnd(events[n])
                    /\ IsStartOf(events[n - 1], "assemblyIdentity")
        /\ result.kind = "Invalid" => ids = {}

C9_Witness ==
    /\ pc = "ident_ret"
    /\ result = Pending
    /\ AttributeNames(events[Len(events) - 1])
          = <<"type", "name", "language", "processorArchitecture",
              "version", "publicKeyToken">>

\* major.minor.build.revision with an absent revision shown as 0
RenderedVersion(v) ==
    LET dot(n) == "." \o ToString(n)
    IN  ToString(v.major) \o dot(v.minor) \o dot(v.build)
            \o dot(IF v.revision = None THEN 0 ELSE v.revision[1])

\* C10: at most one maxversiontested element is written, none when
\* max_version_tested is absent and exactly one in a successful serialization of
\* a non-empty supported_os when it is present; it is the first child of
\* application, before every supportedOS, closed at once, and its Id is
\* major.minor.build.revision with an absent revision shown as 0, so that
\* revision None and Some(0) both give 10.0.18358.0.
C10_MaxVersionTestedElement ==
    LET mv == StartsOf(events, "maxversiontested")
        os_events == StartsOf(events, "supportedOS")
        n == Len(events)
    IN  /\ Cardinality(mv) <= 1
        /\ ~IsSome(compat.max_version_tested) => mv = {}
        /\ IsSome(compat.max_version_tested) /\ (os_events # {} \/ result = Ok)
              /\ compat.supported_os # {} => Cardinality(mv) = 1
        /\ \A i \in mv :
              LET v == Unwrap(compat.max_version_tested)
                  id == events[i].attributes[1]
              IN  /\ IsStartOf(events[i - 1], "application")
                  /\ \A j \in os_events : i < j
                  /\ i < n => IsEnd(events[i + 1])
                  /\ Len(events[i].attributes) = 1
                  /\ id.name.local_name = "Id"
                  /\ id.value = RenderedVersion(v)
                  /\ v.revision \in {None, Some(0)} /\ v.build = 18358
                        => id.value = "10.0.18358.0"

C10_Witness ==
    /\ Finished
    /\ result = Ok
    /\ Cardinality(compat.supported_os) >= 2
    /\ compat.max_version_tested = Some(AssemblyVersion_new(10, 0, 18358, None))
    /\ \E i \in StartsOf(events, "maxversiontested") :
          events[i].attributes[1].value = "10.0.18358.0"

\* the segments of a chain, root first
RECURSIVE PathSegments(_)
PathSegments(p) ==
    (IF IsSome(p.parent) THEN PathSegments(Unwrap(p.parent)) ELSE << >>)
        \o << PathNode_fmt(p.node) >>

\* the pieces of a rendering put together into the text
RECURSIVE Concat(_)
Concat(pieces) ==
    IF pieces = << >> THEN "" ELSE pieces[1] \o Concat(Tail(pieces))

\* s1.s2.....sn
RECURSIVE DotJoined(_)
DotJoined(segs) ==
    IF Len(segs) = 1 THEN segs[1]
    ELSE DotJoined(SubSeq(segs, 1, Len(segs) - 1)) \o "." \o segs[Len(segs)]

\* C11: a Path chain built by Path::new and any number of appended calls, with
\* the segments s1..sn from root to leaf, renders as s1.s2.....sn: one dot
\* between adjacent segments, no leading dot, no empty segment; and the parent
\* of an appended path still renders as the dot-joined text of its own segments.
C11_PathRendersDotJoined ==
    IsSome(chain) =>
        LET p == Unwrap(chain)
        IN  /\ Concat(Path_fmt(p)) = DotJoined(PathSegments(p))
            /\ IsSome(p.parent) =>
                  Concat(Path_fmt(Unwrap(p.parent)))
                      = DotJoined(PathSegments(Unwrap(p.parent)))

\* the positions whose next write is an EndElement
EndPositions ==
    {"maxver_end", "os_end", "app_end", "compat_end",
     "ident_end", "depasm_end", "dep_end", "root_end"}

\* the two ways the elements nest, root first
NestingChains ==
    { <<"assembly", "dependency", "dependentAssembly", "assemblyIdentity">>,
      <<"assembly", "compatibility", "application", "maxversiontested">>,
      <<"assembly", "compatibility", "application", "supportedOS">> }

\* the start elements written with no element open
RootStarts(evs) ==
    { i \in 1..Len(evs) :
        IsStart(evs[i]) /\ OpenElements(SubSeq(evs, 1, i - 1)) = << >> }

\* C12: every EndElement written closes an element that is open (also the one
\* about to be written, so the writer never refuses an event and the string
\* path never sees a writer error); the open elements are at most 4 deep and
\* nest as assembly > dependency > dependentAssembly > assemblyIdentity or
\* assembly > compatibility > application > leaf; a successful call ends with
\* nothing open and exactly one root element.
C12_WellNested ==
    LET open == OpenElements(events)
        tag == ElementOf(events)
    IN  /\ \A i \in 1..Len(events) : tag[i] # "#none"
        /\ pc \in EndPositions => open # << >>
        /\ ToStringEntry => ~WriterFailed
        /\ Len(open) <= 4
        /\ \E c \in NestingChains : IsPrefix(open, c)
        /\ result = Ok =>
              /\ open = << >>
              /\ RootStarts(events) = {2}
              /\ StartsOf(events, "assembly") = {2}

C12_Witness ==
    /\ pc = "ident_end"
    /\ OpenElements(events)
          = <<"assembly", "dependency", "dependentAssembly", "assemblyIdentity">>
    /\ StartsOf(events, "supportedOS") # {}
    /\ StartsOf(events, "maxversiontested") # {}

\* the names a start element hands to the writer: its own and its attributes'
NamesOf(ev) == {ev.name} \cup { ev.attributes[k].name : k \in 1..Len(ev.attributes) }

\* the default namespace in scope on a start element: the one it declares for
\* the empty prefix, else the one of the innermost open element
DefaultIn(ev, scopes) ==
    IF \E d \in ev.namespace : d[1] = NS_NO_PREFIX
    THEN (CHOOSE d \in ev.namespace : d[1] = NS_NO_PREFIX)[2]
    ELSE IF scopes = << >> THEN "" ELSE scopes[Len(scopes)]

\* the default namespace of every open element, outermost first
RECURSIVE ScopeStack(_)
ScopeStack(evs) ==
    IF evs = << >> THEN << >>
    ELSE LET b == ScopeStack(SubSeq(evs, 1, Len(evs) - 1))
             ev == evs[Len(evs)]
         IN  IF IsStart(ev) THEN Append(b, DefaultIn(ev, b))
             ELSE IF IsEnd(ev) /\ b # << >> THEN SubSeq(b, 1, Len(b) - 1)
             ELSE b

\* C13: every element and attribute name written carries the URI of the
\* default namespace in scope where it is written: the compatibility namespace
\* for compatibility, application, maxversiontested, supportedOS and their Id
\* attributes, the manifest namespace for every other name; the compatibility
\* namespace is declared only on compatibility, the manifest namespace only on
\* the root.
C13_NamesCarryScopeNamespace ==
    \A i \in 1..Len(events) :
        IsStart(events[i]) =>
            LET ev == events[i]
                scope == DefaultIn(ev, ScopeStack(SubSeq(events, 1, i - 1)))
            IN  /\ \A n \in NamesOf(ev) : n.namespace = Some(scope)
                /\ scope = IF ev.name.local_name \in CompatNames
                           THEN NS_MS_COMPAT_V1 ELSE NS_MS_ASM_V1
                /\ ev.namespace =
                      IF ev.name.local_name = "compatibility"
                      THEN {<<NS_NO_PREFIX, NS_MS_COMPAT_V1>>}
                      ELSE IF ev.name.local_name = "assembly"
                      THEN {<<NS_NO_PREFIX, NS_MS_ASM_V1>>}
                      ELSE {}

====
